---- MODULE Spec2Model ----
(***************************************************************************)
(* A model of img-boxer: the ratio parser, the grid planner, the crop/pad  *)
(* cell reconciler and the mosaic composer of src/img_boxer.py, and the   *)
(* front-end of src/gui.py that drives them.                               *)
(*                                                                         *)
(* Python's float is IEEE-754 binary64.  The arithmetic the source does on *)
(* ratios (width / height, target_ratio * rows, int(height * ratio), ...)  *)
(* is modelled bit for bit, with round-to-nearest-even, because the        *)
(* program compares and truncates the rounded values.  A 53-bit mantissa   *)
(* does not fit a TLC integer, so a natural number below 2^72 is held as   *)
(* four 18-bit limbs, most significant first.                              *)
(***************************************************************************)
EXTENDS Integers, Sequences, FiniteSets, TLC

----------------------------------------------------------------------------
(* Natural numbers below 2^72 as four limbs of 18 bits.                    *)

LimbBits == 18

Base == 262144

BnZero == <<0, 0, 0, 0>>

BnFromInt(k) == <<0, 0, k \div Base, k % Base>>

BnCmp(a, b) ==
    IF a[1] # b[1] THEN (IF a[1] < b[1] THEN -1 ELSE 1)
    ELSE IF a[2] # b[2] THEN (IF a[2] < b[2] THEN -1 ELSE 1)
    ELSE IF a[3] # b[3] THEN (IF a[3] < b[3] THEN -1 ELSE 1)
    ELSE IF a[4] # b[4] THEN (IF a[4] < b[4] THEN -1 ELSE 1)
    ELSE 0

BnGe(a, b) == BnCmp(a, b) >= 0

\* a - b for a >= b
BnSub(a, b) ==
    LET d4 == a[4] - b[4]
        w4 == IF d4 < 0 THEN 1 ELSE 0
        d3 == a[3] - b[3] - w4
        w3 == IF d3 < 0 THEN 1 ELSE 0
        d2 == a[2] - b[2] - w3
        w2 == IF d2 < 0 THEN 1 ELSE 0
        d1 == a[1] - b[1] - w2
    IN  <<d1, d2 + w2 * Base, d3 + w3 * Base, d4 + w4 * Base>>

\* a * k + c for 0 <= k < 2^13 and 0 <= c < 2^13
BnMulAdd(a, k, c) ==
    LET p4 == a[4] * k + c
        p3 == a[3] * k + (p4 \div Base)
        p2 == a[2] * k + (p3 \div Base)
        p1 == a[1] * k + (p2 \div Base)
    IN  <<p1, p2 % Base, p3 % Base, p4 % Base>>

BnIsZero(a) == a = BnZero

BnIsOdd(a) == a[4] % 2 = 1

RECURSIVE IntBitLen(_)
IntBitLen(k) == IF k = 0 THEN 0 ELSE 1 + IntBitLen(k \div 2)

BnBitLen(a) ==
    IF a[1] # 0 THEN 3 * LimbBits + IntBitLen(a[1])
    ELSE IF a[2] # 0 THEN 2 * LimbBits + IntBitLen(a[2])
    ELSE IF a[3] # 0 THEN LimbBits + IntBitLen(a[3])
    ELSE IntBitLen(a[4])

\* floor(a / 2^s)
BnShr(a, s) ==
    LET j == s \div LimbBits
        r == s % LimbBits
        l == [i \in 1..4 |-> IF i - j >= 1 THEN a[i - j] ELSE 0]
        f == [i \in 1..4 |->
                (l[i] \div (2^r))
                + (IF i > 1 THEN (l[i - 1] % (2^r)) * (2^(LimbBits - r)) ELSE 0)]
    IN  <<f[1], f[2], f[3], f[4]>>

\* a * 2^s, for a result below 2^72
BnShl(a, s) ==
    LET j == s \div LimbBits
        r == s % LimbBits
        l == [i \in 1..4 |-> IF i + j <= 4 THEN a[i + j] ELSE 0]
        f == [i \in 1..4 |->
                (l[i] % (2^(LimbBits - r))) * (2^r)
                + (IF i < 4 THEN l[i + 1] \div (2^(LimbBits - r)) ELSE 0)]
    IN  <<f[1], f[2], f[3], f[4]>>

BnPow2(s) == BnShl(BnFromInt(1), s)

\* the value of a as a TLC integer, for a < 2^31
BnToInt(a) == a[3] * Base + a[4]

\* One correction of an estimated quotient digit: p = <<digit, remainder>>
BnDivCorrect(p, d) ==
    IF BnGe(p[2], d) THEN <<p[1] + 1, BnSub(p[2], d)>> ELSE p

\* <<low, r - d * low>>, for an estimate low of floor(r / d) from below
BnDivEstimate(r, d, low) == <<low, BnSub(r, BnMulAdd(d, low, 0))>>

\* <<floor(r / d), r mod d>> for r < d * 2^12 and a d of exactly 53 bits.
\* The digit is estimated from below by the leading bits of r over the
\* leading 17 bits of d plus one, which falls short of it by at most two.
BnDivStep(r, d) ==
    BnDivCorrect(
        BnDivCorrect(
            BnDivEstimate(r, d, (r[1] * Base + r[2]) \div (d[2] + 1)), d), d)

\* Long division by a d of exactly 53 bits, k digits of 12 bits at a time:
\* <<floor(N * 2^(12 * k) / d), the remainder>>, where q and r < d are the
\* quotient and the remainder of N.
RECURSIVE BnDivDigits(_, _, _, _)
BnDivNext(q, p, d, k) == BnDivDigits(BnMulAdd(q, 4096, p[1]), p[2], d, k)

BnDivDigits(q, r, d, k) ==
    IF k = 0 THEN <<q, r>>
    ELSE BnDivNext(q, BnDivStep(BnMulAdd(r, 4096, 0), d), d, k - 1)

\* <<floor(a / k), a mod k>> for 0 < k < 2^13
BnDivSmall(a, k) ==
    LET t2 == (a[1] % k) * Base + a[2]
        t3 == (t2 % k) * Base + a[3]
        t4 == (t3 % k) * Base + a[4]
    IN  <<(<<a[1] \div k, t2 \div k, t3 \div k, t4 \div k>>), BnFromInt(t4 % k)>>

----------------------------------------------------------------------------
(* Non-negative binary64 values.  A float is zero, [m |-> BnZero, e |-> 0], *)
(* or m * 2^e with 2^52 <= m < 2^53; the bounds of the model keep every    *)
(* value far from overflow and from the subnormal range.                   *)

MantBits == 53

FZero == [m |-> BnZero, e |-> 0]

FIsZero(f) == BnIsZero(f.m)

\* mm * 2^e, for a mantissa mm that rounding up may have carried to 2^53
FCarry(mm, e) ==
    IF mm = BnPow2(MantBits) THEN [m |-> BnPow2(MantBits - 1), e |-> e + 1]
    ELSE [m |-> mm, e |-> e]

\* q * 2^e or its successor: c compares what was cut off q with a half
FRoundUp(q, e, c, sticky) ==
    IF c > 0 \/ (c = 0 /\ (sticky \/ BnIsOdd(q)))
    THEN FCarry(BnMulAdd(q, 1, 1), e)
    ELSE [m |-> q, e |-> e]

\* p cut to its leading MantBits bits q, s bits cut off
FRoundCut(p, e, sticky, s, q) ==
    FRoundUp(q, e + s, BnCmp(BnSub(p, BnShl(q, s)), BnPow2(s - 1)), sticky)

FRoundLen(p, e, sticky, len) ==
    IF len = 0 THEN FZero
    ELSE IF len <= MantBits
    THEN [m |-> BnShl(p, MantBits - len), e |-> e - (MantBits - len)]
    ELSE FRoundCut(p, e, sticky, len - MantBits, BnShr(p, len - MantBits))

\* The binary64 nearest (p + x) * 2^e, ties to even, where 0 < x < 1 when
\* sticky and x = 0 otherwise; with sticky, p has more than MantBits bits.
FRound(p, e, sticky) == FRoundLen(p, e, sticky, BnBitLen(p))

\* float(k) for a Python int 0 <= k < 2^31: exact
FFromInt(k) == FRound(BnFromInt(k), 0, FALSE)

\* the rounding of a quotient qr[1] with remainder qr[2]
FRoundQuotient(qr, e) == FRound(qr[1], e, ~BnIsZero(qr[2]))

\* a / b by long division; ge is whether the mantissa of a reaches that of b
FDivLong(a, b, ge) ==
    FRoundQuotient(BnDivDigits(BnFromInt(IF ge THEN 1 ELSE 0),
                               IF ge THEN BnSub(a.m, b.m) ELSE a.m, b.m, 5),
                   a.e - b.e - 60)

\* a / b for floats, b # 0 (float.__truediv__): at least 56 quotient bits
\* and a sticky remainder, then one rounding.  A divisor whose mantissa has
\* at most 13 significant bits (every int the program divides by) is
\* divided limb by limb, any other by long division.
FDiv(a, b) ==
    IF FIsZero(a) THEN FZero
    ELSE IF b.m[3] = 0 /\ b.m[4] = 0 /\ b.m[2] % 16 = 0
    THEN FRoundQuotient(BnDivSmall(BnShl(a.m, 16), b.m[2] \div 16),
                        a.e - 16 - (b.e + 40))
    ELSE FDivLong(a, b, BnGe(a.m, b.m))

\* k * f for a Python int 0 <= k < 2^13 and a float f (the int is converted
\* exactly, the exact product is rounded once)
FMulInt(k, f) == FRound(BnMulAdd(f.m, k, 0), f.e, FALSE)

\* -1, 0, 1 as a < b, a = b, a > b
FCmp(a, b) ==
    IF FIsZero(a) \/ FIsZero(b)
    THEN (IF FIsZero(a) /\ FIsZero(b) THEN 0 ELSE IF FIsZero(a) THEN -1 ELSE 1)
    ELSE IF a.e # b.e THEN (IF a.e < b.e THEN -1 ELSE 1)
    ELSE BnCmp(a.m, b.m)

FLt(a, b) == FCmp(a, b) < 0

FGt(a, b) == FCmp(a, b) > 0

\* int(f): truncation toward zero, for a value below 2^31
FTrunc(f) ==
    IF f.e >= 0 THEN BnToInt(BnShl(f.m, f.e))
    ELSE IF -f.e >= 72 THEN 0
    ELSE BnToInt(BnShr(f.m, -f.e))

\* whether f is an integer
FIsInt(f) ==
    \/ f.e >= 0
    \/ -f.e < 72 /\ BnShl(BnShr(f.m, -f.e), -f.e) = f.m

\* math.ceil(f)
FCeil(f) == IF FIsInt(f) THEN FTrunc(f) ELSE FTrunc(f) + 1

\* the integer nearest to f, a half going up
FNearest(f) ==
    LET k == FTrunc(f)
    IN  IF FLt(f, FDiv(FFromInt(2 * k + 1), FFromInt(2))) THEN k ELSE k + 1

----------------------------------------------------------------------------
(* Bounds of the model and the inputs the operations are tried on.         *)

\* longest ratio text given to parse_aspect_ratio
MaxTextLen == 3

\* largest image count given to calculate_grid_size on its own
MaxGridN == 60

\* largest width and height of an image given to the cell reconciler
MaxDim == 5

\* largest W and H of the ratios W:H the cell reconciler is tried on
MaxRatioPart == 5

\* largest number of images given to create_image_mosaic
MaxImages == 7

\* number of files the user of the front-end can pick from
MaxFiles == 3

\* The characters of a ratio text: three digits, a letter and the colon.
\* (Over these float() accepts exactly the non-empty digit strings: no
\* sign, point, exponent, underscore, blank, "inf" or "nan" can be spelt.)
Chars == {"0", "4", "9", "a", ":"}

Digits == {"0", "4", "9"}

DigitVal(c) == IF c = "0" THEN 0 ELSE IF c = "4" THEN 4 ELSE 9

Texts == UNION {[1..k -> Chars] : k \in 0..MaxTextLen}

VARIABLES
    pc,             \* the position of the operation under way
    ratio_str,      \* parse_aspect_ratio: its argument
    parsed,         \* parse_aspect_ratio: what the call ended in
    n,              \* calculate_grid_size: its argument
    grid,           \* calculate_grid_size: the pair returned
    image,          \* resize_with_crop / resize_with_padding: the argument
    target_ratio,   \* the target_ratio argument (a float)
    crop_mode,      \* the crop_mode flag
    resized,        \* the image the cell reconciler returned
    images,         \* create_image_mosaic: the sizes of the images given
    rows, cols,     \* create_image_mosaic: the grid
    cell_ratio, cell_width, cell_height,
    final_image,    \* create_image_mosaic: the canvas and what was pasted
    idx,            \* create_image_mosaic: the loop index
    raised,         \* the exception that ended create_image_mosaic
    grid_calls,     \* history: the arguments calculate_grid_size was called with
    skipped,        \* history: whether the loop left on idx >= rows * cols
    selected_files, \* ImageBoxerGUI: the files selected, in order
    final_mosaic,   \* ImageBoxerGUI: the mosaic held, NoCanvas for None
    save_enabled,   \* ImageBoxerGUI: whether save_btn is enabled
    message         \* ImageBoxerGUI: the message box of the last handler

vars == <<pc, ratio_str, parsed, n, grid, image, target_ratio, crop_mode,
          resized, images, rows, cols, cell_ratio, cell_width, cell_height,
          final_image, idx, raised, grid_calls, skipped,
          selected_files, final_mosaic, save_enabled, message>>

parseVars == <<ratio_str, parsed>>

gridVars == <<n, grid>>

cellVars == <<image, resized>>

ratioVars == <<target_ratio, crop_mode>>

mosaicVars == <<images, rows, cols, cell_ratio, cell_width, cell_height,
                final_image, idx, raised, grid_calls, skipped>>

guiVars == <<selected_files, final_mosaic, save_enabled, message>>

None == "none"

NotParsed == [kind |-> "pending", value |-> FZero]

NoImage == [size |-> <<>>, px |-> <<>>]

NoCanvas == [size |-> <<>>, pastes |-> <<>>]

\* the variables of the operations a specification does not run
ParseIdle == ratio_str = <<>> /\ parsed = NotParsed

GridIdle == n = 0 /\ grid = <<>>

CellIdle == image = NoImage /\ resized = NoImage

RatioIdle == target_ratio = FZero /\ crop_mode = FALSE

MosaicIdle ==
    /\ images = <<>> /\ rows = 0 /\ cols = 0
    /\ cell_ratio = FZero /\ cell_width = 0 /\ cell_height = 0
    /\ final_image = NoCanvas /\ idx = 0 /\ raised = None
    /\ grid_calls = <<>> /\ skipped = FALSE

GuiIdle ==
    /\ selected_files = <<>> /\ final_mosaic = NoCanvas
    /\ save_enabled = FALSE /\ message = None

----------------------------------------------------------------------------
(* parse_aspect_ratio                                                      *)

\* str.split(':'): the pieces between the colons, at least one
RECURSIVE SplitFrom(_, _, _)
SplitFrom(s, i, piece) ==
    IF i > Len(s) THEN <<piece>>
    ELSE IF s[i] = ":" THEN <<piece>> \o SplitFrom(s, i + 1, <<>>)
    ELSE SplitFrom(s, i + 1, Append(piece, s[i]))

Split(s) == SplitFrom(s, 1, <<>>)

\* whether float(piece) returns: over Chars, a non-empty digit string
IsFloatText(piece) ==
    Len(piece) > 0 /\ \A i \in 1..Len(piece) : piece[i] \in Digits

RECURSIVE DecimalValue(_)
DecimalValue(piece) ==
    IF piece = <<>> THEN 0
    ELSE 10 * DecimalValue(SubSeq(piece, 1, Len(piece) - 1))
         + DigitVal(piece[Len(piece)])

\* float(piece), for a piece float() accepts
FloatOfText(piece) == FFromInt(DecimalValue(piece))

\* What parse_aspect_ratio(s) ends in.  The unpacking of map(float, ...)
\* into two names raises ValueError for fewer or more than two pieces and
\* float() raises ValueError for a piece it cannot read; the except clause
\* turns ValueError, and nothing else, into ArgumentTypeError.  The
\* division is outside its reach.
ParseAspectRatio(s) ==
    LET pieces == Split(s)
    IN  IF Len(pieces) # 2
           \/ ~IsFloatText(pieces[1]) \/ ~IsFloatText(pieces[2])
        THEN [kind |-> "ArgumentTypeError", value |-> FZero]
        ELSE LET width  == FloatOfText(pieces[1])
                 height == FloatOfText(pieces[2])
             IN  IF FIsZero(height)
                 THEN [kind |-> "ZeroDivisionError", value |-> FZero]
                 ELSE [kind |-> "returned", value |-> FDiv(width, height)]

ParseInit ==
    /\ pc = "parse"
    /\ ratio_str \in Texts
    /\ parsed = NotParsed
    /\ GridIdle /\ CellIdle /\ RatioIdle /\ MosaicIdle /\ GuiIdle

ParseCall ==
    /\ pc = "parse"
    /\ parsed' = ParseAspectRatio(ratio_str)
    /\ pc' = "parsed"
    /\ UNCHANGED <<ratio_str, gridVars, cellVars, ratioVars, mosaicVars, guiVars>>

ParseNext == ParseCall

SpecParse == ParseInit /\ [][ParseNext]_vars

----------------------------------------------------------------------------
(* calculate_grid_size                                                     *)

\* math.ceil(math.sqrt(k)) for an int k >= 0.  The square root of a k that
\* is no square lies at least 1 / (2 * sqrt(k) + 1) from every integer, far
\* more than the rounding of sqrt can move it (k < 2^31 here), so the
\* result is the least c with c * c >= k.
CeilSqrt(k) == CHOOSE c \in 0..k : c * c >= k /\ (c = 0 \/ (c - 1) * (c - 1) < k)

\* A faulty variant: floor instead of ceil
CeilDiv_Floor(a, b) == FTrunc(FDiv(FFromInt(a), FFromInt(b)))

\* math.ceil(a / b) for ints a >= 0, b > 0: true division, then ceil
CeilDiv(a, b) == FCeil(FDiv(FFromInt(a), FFromInt(b)))

\* A faulty variant: the pair the other way round, (cols, rows)
CalculateGridSize_ColsFirst(k) ==
    IF k <= 1 THEN <<1, 1>>
    ELSE LET c == CeilSqrt(k)
             r == FCeil(FDiv(FFromInt(k), FFromInt(c)))
         IN  <<c, r>>

\* A faulty variant: only the full rows: n // cols
CalculateGridSize_FullRows(k) ==
    IF k <= 1 THEN <<1, 1>>
    ELSE LET c == CeilSqrt(k)
         IN  <<k \div c, c>>

\* the pair (rows, cols) returned
CalculateGridSize(k) ==
    IF k <= 1 THEN <<1, 1>>
    ELSE LET c == CeilSqrt(k)
             r == CeilDiv(k, c)
         IN  <<r, c>>

GridInit ==
    /\ pc = "plan"
    /\ n \in 0..MaxGridN
    /\ grid = <<>>
    /\ ParseIdle /\ CellIdle /\ RatioIdle /\ MosaicIdle /\ GuiIdle

GridCall ==
    /\ pc = "plan"
    /\ grid' = CalculateGridSize(n)
    /\ pc' = "planned"
    /\ UNCHANGED <<n, parseVars, cellVars, ratioVars, mosaicVars, guiVars>>

GridNext == GridCall

SpecGrid == GridInit /\ [][GridNext]_vars

----------------------------------------------------------------------------
(* Images.  An image is its size and its pixels, px[<<x, y>>] for          *)
(* 0 <= x < width and 0 <= y < height.  The pixel at (x, y) of an image    *)
(* the caller decoded is written <<x, y>>, so that a pixel of a result     *)
(* tells which pixel of the original it is; black is the RGB triple.       *)

Black == <<0, 0, 0>>

Coords(size) == (0..(size[1] - 1)) \X (0..(size[2] - 1))

SourceImage(size) == [size |-> size, px |-> [p \in Coords(size) |-> p]]

\* Image.new('RGB', size, color)
ImageNew(size, color) == [size |-> size, px |-> [p \in Coords(size) |-> color]]

\* im.crop((left, upper, right, lower)), for a box inside im
ImageCrop(im, box) ==
    LET size == <<box[3] - box[1], box[4] - box[2]>>
    IN  [size |-> size,
         px   |-> [p \in Coords(size) |-> im.px[<<p[1] + box[1], p[2] + box[2]>>]]]

\* im.paste(src, (x, y)): im with src over it, its corner at (x, y)
ImagePaste(im, src, at) ==
    [size |-> im.size,
     px   |-> [p \in Coords(im.size) |->
                 IF /\ at[1] <= p[1] /\ p[1] < at[1] + src.size[1]
                    /\ at[2] <= p[2] /\ p[2] < at[2] + src.size[2]
                 THEN src.px[<<p[1] - at[1], p[2] - at[2]>>]
                 ELSE im.px[p]]]

----------------------------------------------------------------------------
(* resize_with_crop and resize_with_padding                                *)

\* width / height of two ints (true division)
IntRatio(width, height) == FDiv(FFromInt(width), FFromInt(height))

\* A faulty variant: the new length rounded to the nearest integer
ResizeWithCrop_Rounded(im, ratio) ==
    LET width  == im.size[1]
        height == im.size[2]
        current_ratio == IntRatio(width, height)
    IN  IF FGt(current_ratio, ratio)
        THEN LET new_width == FNearest(FMulInt(height, ratio))
                 left == (width - new_width) \div 2
             IN  ImageCrop(im, <<left, 0, left + new_width, height>>)
        ELSE IF FLt(current_ratio, ratio)
        THEN LET new_height == FNearest(FDiv(FFromInt(width), ratio))
                 top == (height - new_height) \div 2
             IN  ImageCrop(im, <<0, top, width, top + new_height>>)
        ELSE im

\* A faulty variant: the original pasted at the top left corner
ResizeWithPadding_TopLeft(im, ratio) ==
    LET width  == im.size[1]
        height == im.size[2]
        current_ratio == IntRatio(width, height)
    IN  IF FGt(current_ratio, ratio)
        THEN LET new_height == FTrunc(FDiv(FFromInt(width), ratio))
             IN  ImagePaste(ImageNew(<<width, new_height>>, Black), im, <<0, 0>>)
        ELSE IF FLt(current_ratio, ratio)
        THEN LET new_width == FTrunc(FMulInt(height, ratio))
             IN  ImagePaste(ImageNew(<<new_width, height>>, Black), im, <<0, 0>>)
        ELSE im

ResizeWithCrop(im, ratio) ==
    LET width  == im.size[1]
        height == im.size[2]
        current_ratio == IntRatio(width, height)
    IN  IF FGt(current_ratio, ratio)
        THEN LET new_width == FTrunc(FMulInt(height, ratio))
                 left == (width - new_width) \div 2
             IN  ImageCrop(im, <<left, 0, left + new_width, height>>)
        ELSE IF FLt(current_ratio, ratio)
        THEN LET new_height == FTrunc(FDiv(FFromInt(width), ratio))
                 top == (height - new_height) \div 2
             IN  ImageCrop(im, <<0, top, width, top + new_height>>)
        ELSE im

ResizeWithPadding(im, ratio) ==
    LET width  == im.size[1]
        height == im.size[2]
        current_ratio == IntRatio(width, height)
    IN  IF FGt(current_ratio, ratio)
        THEN LET new_height == FTrunc(FDiv(FFromInt(width), ratio))
                 new_image == ImageNew(<<width, new_height>>, Black)
                 paste_y == (new_height - height) \div 2
             IN  ImagePaste(new_image, im, <<0, paste_y>>)
        ELSE IF FLt(current_ratio, ratio)
        THEN LET new_width == FTrunc(FMulInt(height, ratio))
                 new_image == ImageNew(<<new_width, height>>, Black)
                 paste_x == (new_width - width) \div 2
             IN  ImagePaste(new_image, im, <<paste_x, 0>>)
        ELSE im

\* the float parse_aspect_ratio returns for the text "W:H", H # 0
RatioOf(W, H) == FDiv(FFromInt(W), FFromInt(H))

\* A faulty variant: the grid the other way round: (target_ratio * cols) / rows
CellRatio_Inverted(ratio, r, c) == FDiv(FMulInt(c, ratio), FFromInt(r))

\* cell_ratio = (target_ratio * rows) / cols
CellRatio(ratio, r, c) == FDiv(FMulInt(r, ratio), FFromInt(c))

\* The sizes tried: every size up to MaxDim, and a 10 x 25 image, whose
\* ratio 0.4 is one rounding away from the cell ratio of 3:5 on a 2 x 3 grid.
CellSizes == ((1..MaxDim) \X (1..MaxDim)) \cup {<<10, 25>>}

\* The ratios tried: the cell ratios create_image_mosaic derives from the
\* ratios W:H on the grids of 1..MaxImages images (the 1 x 1 grid gives W:H).
CellRatios ==
    {CellRatio(RatioOf(W, H), g[1], g[2]) :
        W \in 1..MaxRatioPart, H \in 1..MaxRatioPart,
        g \in {CalculateGridSize(k) : k \in 1..MaxImages}}

CellInit ==
    /\ pc = "reconcile"
    /\ image \in {SourceImage(size) : size \in CellSizes}
    /\ target_ratio \in CellRatios
    /\ crop_mode \in BOOLEAN
    /\ resized = NoImage
    /\ ParseIdle /\ GridIdle /\ MosaicIdle /\ GuiIdle

CropCall ==
    /\ pc = "reconcile"
    /\ crop_mode
    /\ resized' = ResizeWithCrop(image, target_ratio)
    /\ pc' = "reconciled"
    /\ UNCHANGED <<image, parseVars, gridVars, ratioVars, mosaicVars, guiVars>>

PadCall ==
    /\ pc = "reconcile"
    /\ ~crop_mode
    /\ resized' = ResizeWithPadding(image, target_ratio)
    /\ pc' = "reconciled"
    /\ UNCHANGED <<image, parseVars, gridVars, ratioVars, mosaicVars, guiVars>>

CellNext == CropCall \/ PadCall

SpecCell == CellInit /\ [][CellNext]_vars

----------------------------------------------------------------------------
(* create_image_mosaic                                                     *)

BASE_HEIGHT == 300

\* A faulty variant: the nearest integer instead of the integer part
CellWidth_Rounded(height, ratio) == FNearest(FMulInt(height, ratio))

\* cell_width = int(cell_height * cell_ratio)
CellWidth(height, ratio) == FTrunc(FMulInt(height, ratio))

\* What im.resize(size, LANCZOS) of Pillow can end in, for an image of size
\* from: a target without area is refused ("height and width must be > 0");
\* what resampling an image without area does is the library's choice.
ResizeOutcomes(from, size) ==
    IF size[1] < 1 \/ size[2] < 1 THEN {"ValueError"}
    ELSE IF from[1] < 1 \/ from[2] < 1 THEN {"resized", "ValueError"}
    ELSE {"resized"}

\* The ratios tried, as the W and H of the text: every W:H up to
\* MaxRatioPart (3:5 has a cell ratio on a 2 x 3 grid one rounding below
\* 0.4), the five the front-end offers (gui.py), 7:15 (whose cell width on a
\* 3 x 3 grid is one rounding below 140) and 1:301 (less than one pixel of
\* cell width).
MosaicRatioTexts ==
    ((1..MaxRatioPart) \X (1..MaxRatioPart))
    \cup {<<16, 9>>, <<4, 3>>, <<1, 1>>, <<2, 1>>, <<3, 2>>, <<7, 15>>, <<1, 301>>}

\* The image lists tried: 0..MaxImages images whose sizes go round
\* MosaicSizes, starting at any of them.
MosaicSizes == <<(<<4, 3>>), (<<1, 1>>), (<<10, 25>>)>>

ImageLists ==
    {[i \in 1..k |-> MosaicSizes[((i + j) % Len(MosaicSizes)) + 1]] :
        k \in 0..MaxImages, j \in 1..Len(MosaicSizes)}

MosaicInit ==
    /\ pc = "enter"
    /\ images \in ImageLists
    /\ target_ratio \in {RatioOf(t[1], t[2]) : t \in MosaicRatioTexts}
    /\ crop_mode \in BOOLEAN
    /\ rows = 0 /\ cols = 0
    /\ cell_ratio = FZero /\ cell_width = 0 /\ cell_height = 0
    /\ final_image = NoCanvas /\ idx = 0 /\ raised = None
    /\ grid_calls = <<>> /\ skipped = FALSE
    /\ ParseIdle /\ GridIdle /\ CellIdle /\ GuiIdle

\* A faulty variant: no guard against no images
MosaicEnter_NoGuard ==
    /\ pc = "enter"
    /\ rows' = CalculateGridSize(Len(images))[1]
    /\ cols' = CalculateGridSize(Len(images))[2]
    /\ grid_calls' = Append(grid_calls, Len(images))
    /\ pc' = "cell"
    /\ UNCHANGED <<raised, images, cell_ratio, cell_width, cell_height,
                   final_image, idx, skipped, parseVars, gridVars, cellVars,
                   ratioVars>>
    /\ UNCHANGED guiVars

\* lines 71-75: the guard against no images, then the grid
MosaicEnter ==
    /\ pc = "enter"
    /\ IF images = <<>>
       THEN /\ raised' = "ValueError: No images provided"
            /\ pc' = "raised"
            /\ UNCHANGED <<rows, cols, grid_calls>>
       ELSE /\ rows' = CalculateGridSize(Len(images))[1]
            /\ cols' = CalculateGridSize(Len(images))[2]
            /\ grid_calls' = Append(grid_calls, Len(images))
            /\ pc' = "cell"
            /\ UNCHANGED raised
    /\ UNCHANGED <<images, cell_ratio, cell_width, cell_height, final_image,
                   idx, skipped, parseVars, gridVars, cellVars, ratioVars>>
    /\ UNCHANGED guiVars

\* lines 81-86: the ratio and the size of a cell
MosaicCellSize ==
    /\ pc = "cell"
    /\ cell_ratio' = CellRatio(target_ratio, rows, cols)
    /\ cell_height' = BASE_HEIGHT
    /\ cell_width' = CellWidth(BASE_HEIGHT, CellRatio(target_ratio, rows, cols))
    /\ pc' = "canvas"
    /\ UNCHANGED <<images, rows, cols, final_image, idx, raised, grid_calls,
                   skipped, parseVars, gridVars, cellVars, ratioVars>>
    /\ UNCHANGED guiVars

\* lines 89-91: the black canvas
MosaicCanvas ==
    /\ pc = "canvas"
    /\ final_image' = [size   |-> <<cell_width * cols, cell_height * rows>>,
                       pastes |-> <<>>]
    /\ idx' = 0
    /\ pc' = "place"
    /\ UNCHANGED <<images, rows, cols, cell_ratio, cell_width, cell_height,
                   raised, grid_calls, skipped, parseVars, gridVars, cellVars,
                   ratioVars>>
    /\ UNCHANGED guiVars

\* lines 94-114: one turn of the loop, for the image at idx
MosaicPlace ==
    /\ pc = "place"
    /\ idx < Len(images)
    /\ IF idx >= rows * cols
       THEN /\ skipped' = TRUE
            /\ pc' = "returned"
            /\ UNCHANGED <<final_image, idx, raised>>
       ELSE LET img      == SourceImage(images[idx + 1])
                grid_row == idx \div cols
                grid_col == idx % cols
                fitted   == IF crop_mode THEN ResizeWithCrop(img, cell_ratio)
                            ELSE ResizeWithPadding(img, cell_ratio)
                x        == grid_col * cell_width
                y        == grid_row * cell_height
            IN  \E outcome \in ResizeOutcomes(fitted.size, <<cell_width, cell_height>>) :
                    IF outcome = "ValueError"
                    THEN /\ raised' = "ValueError: height and width must be > 0"
                         /\ pc' = "raised"
                         /\ UNCHANGED <<final_image, idx, skipped>>
                    ELSE /\ final_image' =
                              [final_image EXCEPT !.pastes =
                                  Append(@, [image |-> idx, at |-> <<x, y>>,
                                             size |-> <<cell_width, cell_height>>])]
                         /\ idx' = idx + 1
                         /\ UNCHANGED <<pc, raised, skipped>>
    /\ UNCHANGED <<images, rows, cols, cell_ratio, cell_width, cell_height,
                   grid_calls, parseVars, gridVars, cellVars, ratioVars>>
    /\ UNCHANGED guiVars

\* line 116: the loop is through
MosaicReturn ==
    /\ pc = "place"
    /\ idx = Len(images)
    /\ pc' = "returned"
    /\ UNCHANGED <<mosaicVars, parseVars, gridVars, cellVars, ratioVars, guiVars>>

MosaicNext ==
    MosaicEnter \/ MosaicCellSize \/ MosaicCanvas \/ MosaicPlace \/ MosaicReturn

SpecMosaic == MosaicInit /\ [][MosaicNext]_vars

----------------------------------------------------------------------------
(* The front-end, ImageBoxerGUI of src/gui.py.  Qt runs one handler at a   *)
(* time: a handler starts at pc = "gui" and process_images, which runs     *)
(* create_image_mosaic, is back at "gui" when it ends.                     *)

\* the files the user can pick
FilePaths == 1..MaxFiles

\* What Image.open finds in a file: a 4 x 3 image, a 1 x 1 image, or
\* nothing it can read (<<>>).
FileSize(f) ==
    IF f % 3 = 1 THEN <<4, 3>> ELSE IF f % 3 = 2 THEN <<1, 1>> ELSE <<>>

\* the values of self.aspect_ratios, as the W and H of the text "W:H"
aspect_ratios == {<<16, 9>>, <<4, 3>>, <<1, 1>>, <<2, 1>>, <<3, 2>>}

\* the lists of files one selection, drop or paste hands to add_files
FileLists == UNION {[1..k -> FilePaths] : k \in 1..2}

Range(l) == {l[i] : i \in 1..Len(l)}

AppendNew(l, x) == IF x \in Range(l) THEN l ELSE Append(l, x)

\* list(dict.fromkeys(l)): l without the later copies of a file
RECURSIVE Dedupe(_)
Dedupe(l) ==
    IF l = <<>> THEN <<>>
    ELSE AppendNew(Dedupe(SubSeq(l, 1, Len(l) - 1)), l[Len(l)])

\* what showing the preview (ImageQt, QPixmap) can end in
PreviewOutcomes == {"shown", "raised"}

\* what the save dialog and Image.save can end in
SaveOutcomes == {"cancelled", "saved", "raised"}

\* the locals of create_image_mosaic are gone when it has ended
MosaicReset ==
    /\ images' = <<>> /\ rows' = 0 /\ cols' = 0
    /\ cell_ratio' = FZero /\ cell_width' = 0 /\ cell_height' = 0
    /\ final_image' = NoCanvas /\ idx' = 0 /\ raised' = None
    /\ grid_calls' = <<>> /\ skipped' = FALSE
    /\ target_ratio' = FZero /\ crop_mode' = FALSE

\* __init__ (lines 103-105) and create_control_panel (line 262)
GuiInit ==
    /\ pc = "gui"
    /\ selected_files = <<>>
    /\ final_mosaic = NoCanvas
    /\ save_enabled = FALSE
    /\ message = None
    /\ ParseIdle /\ GridIdle /\ CellIdle /\ RatioIdle /\ MosaicIdle

\* add_files, lines 209-217
AddFiles ==
    /\ pc = "gui"
    /\ \E file_paths \in FileLists :
          selected_files' = Dedupe(selected_files \o file_paths)
    /\ message' = None
    /\ UNCHANGED <<pc, final_mosaic, save_enabled, parseVars, gridVars,
                   cellVars, ratioVars, mosaicVars>>

\* A faulty variant: the mosaic dropped, the button left as it is
ClearFiles_ButtonKept ==
    /\ pc = "gui"
    /\ selected_files' = <<>>
    /\ final_mosaic' = NoCanvas
    /\ message' = None
    /\ UNCHANGED <<pc, save_enabled, parseVars, gridVars, cellVars, ratioVars,
                   mosaicVars>>

\* clear_files, lines 270-277
ClearFiles ==
    /\ pc = "gui"
    /\ selected_files' = <<>>
    /\ final_mosaic' = NoCanvas
    /\ save_enabled' = FALSE
    /\ message' = None
    /\ UNCHANGED <<pc, parseVars, gridVars, cellVars, ratioVars, mosaicVars>>

\* process_images, lines 330-353: refused without files; else the ratio of
\* the combo box is parsed, the files are loaded (Image.open raises on a
\* file it cannot read, which the handler reports) and create_image_mosaic
\* is entered.
ProcessImages ==
    /\ pc = "gui"
    /\ IF selected_files = <<>>
       THEN /\ message' = "Please select images first!"
            /\ UNCHANGED <<pc, ratioVars, images>>
       ELSE \E ratio_text \in aspect_ratios, crop \in BOOLEAN :
               IF \E i \in 1..Len(selected_files) :
                     FileSize(selected_files[i]) = <<>>
               THEN /\ message' = "Error processing images"
                    /\ UNCHANGED <<pc, ratioVars, images>>
               ELSE /\ target_ratio' = RatioOf(ratio_text[1], ratio_text[2])
                    /\ crop_mode' = crop
                    /\ images' = [i \in 1..Len(selected_files) |->
                                     FileSize(selected_files[i])]
                    /\ message' = None
                    /\ pc' = "enter"
    /\ UNCHANGED <<selected_files, final_mosaic, save_enabled, rows, cols,
                   cell_ratio, cell_width, cell_height, final_image, idx,
                   raised, grid_calls, skipped, parseVars, gridVars, cellVars>>

\* process_images, lines 349-362, once create_image_mosaic has ended: what
\* it returned is stored, the preview is shown and the button is enabled;
\* an exception on the way is reported and ends the handler there.
ProcessImagesEnd ==
    /\ pc \in {"returned", "raised"}
    /\ selected_files # <<>>
    /\ IF pc = "raised"
       THEN /\ message' = "Error processing images"
            /\ UNCHANGED <<final_mosaic, save_enabled>>
       ELSE /\ final_mosaic' = final_image
            /\ \E preview \in PreviewOutcomes :
                  IF preview = "shown"
                  THEN save_enabled' = TRUE /\ message' = None
                  ELSE /\ message' = "Error processing images"
                       /\ UNCHANGED save_enabled
    /\ MosaicReset
    /\ pc' = "gui"
    /\ UNCHANGED <<selected_files, parseVars, gridVars, cellVars>>

\* save_mosaic, lines 390-408; a disabled button is not clicked
SaveMosaic ==
    /\ pc = "gui"
    /\ save_enabled
    /\ IF final_mosaic = NoCanvas
       THEN message' = "No mosaic to save!"
       ELSE \E outcome \in SaveOutcomes :
               message' = IF outcome = "saved" THEN "Mosaic saved successfully!"
                          ELSE IF outcome = "raised" THEN "Error saving mosaic"
                          ELSE None
    /\ UNCHANGED <<pc, selected_files, final_mosaic, save_enabled, parseVars,
                   gridVars, cellVars, ratioVars, mosaicVars>>

GuiNext ==
    \/ AddFiles \/ ClearFiles \/ ProcessImages
    \/ MosaicEnter \/ MosaicCellSize \/ MosaicCanvas \/ MosaicPlace
    \/ MosaicReturn
    \/ ProcessImagesEnd \/ SaveMosaic

SpecGui == GuiInit /\ [][GuiNext]_vars

----------------------------------------------------------------------------
(* The claims about parse_aspect_ratio (under SpecParse)                   *)

ColonCount(s) == Cardinality({i \in 1..Len(s) : s[i] = ":"})

\* the three cases of a text that is no ratio: not exactly one colon, a
\* side that is no number, a height of zero
Malformed(s) ==
    \/ ColonCount(s) # 1
    \/ \E i \in 1..Len(Split(s)) : ~IsFloatText(Split(s)[i])
    \/ DecimalValue(Split(s)[2]) = 0

\* C1: for every text, parse_aspect_ratio ends in the invalid-argument
\* error (ArgumentTypeError, "Aspect ratio must be in format W:H") when the
\* text has not exactly one colon, when a side is not numeric, or when the
\* height is zero, and no other failure escapes to the caller.
C1_MalformedRatioIsInvalidArgument ==
    pc = "parsed" =>
        /\ (Malformed(ratio_str) => parsed.kind = "ArgumentTypeError")
        /\ parsed.kind \in {"returned", "ArgumentTypeError"}

----------------------------------------------------------------------------
(* The claims about calculate_grid_size (under SpecGrid)                   *)

\* C2 as claimed: plan_grid(1) = (1,1), plan_grid(4) = (2,2),
\* plan_grid(5) = (2,3) and plan_grid(10) = (4,3), as (rows, cols).
C2_GridExamplesAsClaimed ==
    pc = "planned" =>
        /\ (n = 1 => grid = <<1, 1>>)
        /\ (n = 4 => grid = <<2, 2>>)
        /\ (n = 5 => grid = <<2, 3>>)
        /\ (n = 10 => grid = <<4, 3>>)

\* C2 as amended: the pairs (rows, cols) are (1,1) for 1 image, (2,2) for
\* 4, (2,3) for 5 and (3,4) for 10: three rows of four columns.
C2_GridExamples ==
    pc = "planned" =>
        /\ (n = 1 => grid = <<1, 1>>)
        /\ (n = 4 => grid = <<2, 2>>)
        /\ (n = 5 => grid = <<2, 3>>)
        /\ (n = 10 => grid = <<3, 4>>)

C2_Witness == pc = "planned" /\ n = 10 /\ grid = <<3, 4>>

\* C3: for every count n >= 0 the pair (rows, cols) is of positive integers
\* with rows * cols >= max(n, 1); for n >= 2, cols = ceil(sqrt(n)) and
\* rows = ceil(n / cols), so cols >= rows and rows * cols - n < cols.
C3_GridCoversWithLessThanARowToSpare ==
    pc = "planned" =>
        LET r == grid[1]
            c == grid[2]
        IN  /\ r >= 1 /\ c >= 1
            /\ r * c >= (IF n >= 1 THEN n ELSE 1)
            /\ n >= 2 =>
                 /\ (c - 1) * (c - 1) < n /\ n <= c * c
                 /\ (r - 1) * c < n /\ n <= r * c
                 /\ c >= r
                 /\ r * c - n < c

C3_Witness == pc = "planned" /\ n = 7 /\ grid[1] * grid[2] - n = 2

----------------------------------------------------------------------------
(* The claims about resize_with_crop and resize_with_padding (SpecCell).   *)
(* The ratios are binary64 values, t = m * 2^e with e < 0 here; the        *)
(* distances below are computed exactly, in integers scaled by 2^-e.       *)

BnAbsDiff(a, b) == IF BnGe(a, b) THEN BnSub(a, b) ELSE BnSub(b, a)

\* |k - h * t| < 1, exactly
WithinAPixelOfProduct(k, h, t) ==
    BnCmp(BnAbsDiff(BnShl(BnFromInt(k), -t.e), BnMulAdd(t.m, h, 0)),
          BnPow2(-t.e)) < 0

\* |k - w / t| < 1, exactly: |k * t - w| < t
WithinAPixelOfQuotient(k, w, t) ==
    BnCmp(BnAbsDiff(BnMulAdd(t.m, k, 0), BnShl(BnFromInt(w), -t.e)), t.m) < 0

\* k is the integer part of the float f: k <= f < k + 1
IsIntPartOf(k, f) == ~FLt(f, FFromInt(k)) /\ FLt(f, FFromInt(k + 1))

\* C4 as claimed (w/h, h * t and w / t read as the binary64 values the
\* program computes): the crop never lengthens a dimension and shortens
\* exactly one: if w/h > t then h' = h and w' = floor(h * t) < w; if
\* w/h < t then w' = w and h' = floor(w / t) < h; if w/h = t the image is
\* returned unchanged.
C4_CropShortensExactlyOne ==
    (pc = "reconciled" /\ crop_mode) =>
        LET w  == image.size[1]
            h  == image.size[2]
            w2 == resized.size[1]
            h2 == resized.size[2]
            c  == FCmp(IntRatio(w, h), target_ratio)
        IN  /\ w2 <= w /\ h2 <= h
            /\ c > 0 => /\ h2 = h /\ w2 < w
                        /\ IsIntPartOf(w2, FMulInt(h, target_ratio))
            /\ c < 0 => /\ w2 = w /\ h2 < h
                        /\ IsIntPartOf(h2, FDiv(FFromInt(w), target_ratio))
            /\ c = 0 => resized = image

\* C4 as amended: the crop never lengthens a dimension and changes at most
\* one: if w/h > t then h' = h and w' = int(h * t) <= w; if w/h < t then
\* w' = w and h' = int(w / t) <= h; if w/h = t the image is returned
\* unchanged; the comparison, the product and the quotient are the binary64
\* ones, and the new length is less than one pixel from the exact h * t
\* (or w / t).  The length may stay as it was, when w/h and t differ by a
\* rounding only.
C4_CropShortensAtMostOne ==
    (pc = "reconciled" /\ crop_mode) =>
        LET w  == image.size[1]
            h  == image.size[2]
            w2 == resized.size[1]
            h2 == resized.size[2]
            c  == FCmp(IntRatio(w, h), target_ratio)
        IN  /\ w2 <= w /\ h2 <= h
            /\ c > 0 => /\ h2 = h
                        /\ IsIntPartOf(w2, FMulInt(h, target_ratio))
                        /\ WithinAPixelOfProduct(w2, h, target_ratio)
            /\ c < 0 => /\ w2 = w
                        /\ IsIntPartOf(h2, FDiv(FFromInt(w), target_ratio))
                        /\ WithinAPixelOfQuotient(h2, w, target_ratio)
            /\ c = 0 => resized = image

\* a crop that shortens nothing: 10 x 25 cropped to a ratio just below 0.4
C4_Witness ==
    /\ pc = "reconciled" /\ crop_mode
    /\ FGt(IntRatio(image.size[1], image.size[2]), target_ratio)
    /\ resized.size = image.size

\* C5: the padding never shortens a dimension; the whole original appears
\* unmodified as one w-by-h rectangle at offset (floor((w' - w) / 2),
\* floor((h' - h) / 2)), every pixel outside it is black, only the
\* dimension that makes the image too narrow or too flat for t grows, and
\* the grown length is less than one pixel from w / t (or h * t).
C5_PadKeepsOriginalCentredOnBlack ==
    (pc = "reconciled" /\ ~crop_mode) =>
        LET w  == image.size[1]
            h  == image.size[2]
            w2 == resized.size[1]
            h2 == resized.size[2]
            ox == (w2 - w) \div 2
            oy == (h2 - h) \div 2
            c  == FCmp(IntRatio(w, h), target_ratio)
        IN  /\ w2 >= w /\ h2 >= h
            /\ DOMAIN resized.px = Coords(resized.size)
            /\ \A p \in Coords(resized.size) :
                 resized.px[p] =
                    IF /\ ox <= p[1] /\ p[1] < ox + w
                       /\ oy <= p[2] /\ p[2] < oy + h
                    THEN image.px[<<p[1] - ox, p[2] - oy>>]
                    ELSE Black
            /\ c > 0 => w2 = w /\ WithinAPixelOfQuotient(h2, w, target_ratio)
            /\ c < 0 => h2 = h /\ WithinAPixelOfProduct(w2, h, target_ratio)
            /\ c = 0 => resized.size = image.size

\* an image padded on both sides, by an odd number of columns
C5_Witness ==
    /\ pc = "reconciled" /\ ~crop_mode
    /\ resized.size[2] = image.size[2]
    /\ (resized.size[1] - image.size[1]) % 2 = 1
    /\ resized.size[1] - image.size[1] >= 3

----------------------------------------------------------------------------
(* The claims about create_image_mosaic (under SpecMosaic)                 *)

\* the cell size has been computed
CellSized == images # <<>> /\ pc \in {"canvas", "place", "returned", "raised"}

\* k is an integer nearest to the float f: |f - k| <= 1/2
IsNearestTo(k, f) ==
    /\ ~FGt(f, FDiv(FFromInt(2 * k + 1), FFromInt(2)))
    /\ k >= 1 => ~FLt(f, FDiv(FFromInt(2 * k - 1), FFromInt(2)))

\* C6: called with no images, create_image_mosaic raises the empty-input
\* error ("No images provided") for every ratio and either policy, before
\* anything else: calculate_grid_size is never called with 0 and no canvas
\* is allocated.
C6_NoImagesRaisesFirst ==
    /\ \A i \in 1..Len(grid_calls) : grid_calls[i] # 0
    /\ (images = <<>> /\ pc # "enter") =>
          /\ pc = "raised"
          /\ raised = "ValueError: No images provided"
          /\ grid_calls = <<>>
          /\ final_image = NoCanvas

C6_Witness ==
    /\ images = <<>> /\ pc = "raised" /\ crop_mode
    /\ raised = "ValueError: No images provided"

\* C7 as claimed: cell_height = 300, cell_width is the integer nearest to
\* cell_height * cell_ratio, cell_ratio = (target_ratio * rows) / cols, and
\* the canvas is (cell_width * cols) by (cell_height * rows).
C7_CellWidthIsNearest ==
    CellSized =>
        /\ cell_height = 300
        /\ cell_ratio = FDiv(FMulInt(rows, target_ratio), FFromInt(cols))
        /\ IsNearestTo(cell_width, FMulInt(cell_height, cell_ratio))
        /\ final_image # NoCanvas =>
              final_image.size = <<cell_width * cols, cell_height * rows>>

\* C7 as amended: cell_height = 300, cell_width is the integer part of
\* cell_height * cell_ratio (int(): the fraction is dropped, never rounded
\* up), cell_ratio = (target_ratio * rows) / cols in binary64, and the
\* canvas is (cell_width * cols) by (cell_height * rows).
C7_CellWidthIsIntPart ==
    CellSized =>
        /\ cell_height = 300
        /\ cell_ratio = FDiv(FMulInt(rows, target_ratio), FFromInt(cols))
        /\ IsIntPartOf(cell_width, FMulInt(cell_height, cell_ratio))
        /\ final_image # NoCanvas =>
              final_image.size = <<cell_width * cols, cell_height * rows>>

\* 16:9 on two images: 300 * 0.888... = 266.67 gives 266, not 267
C7_Witness ==
    /\ pc = "returned" /\ cols = 2 /\ rows = 1
    /\ cell_width = 266
    /\ final_image.size = <<532, 300>>

\* |W - H * t|, scaled by 2^-e, for the canvas W x H and t = m * 2^e
CanvasGap ==
    BnAbsDiff(BnShl(BnFromInt(final_image.size[1]), -target_ratio.e),
              BnMulAdd(target_ratio.m, final_image.size[2], 0))

\* C8 as claimed: the width/height ratio of the returned canvas differs
\* from target_ratio by less than cols / (300 * rows); with H = 300 * rows
\* that is |W - H * t| < cols.
C8_CanvasRatioWithinAPixelPerCell ==
    pc = "returned" =>
        BnCmp(CanvasGap, BnShl(BnFromInt(cols), -target_ratio.e)) < 0

\* C8 as amended: the width/height ratio of the returned canvas differs
\* from target_ratio by less than cols / (300 * rows) + target_ratio * 2^-51:
\* the pixel a cell loses to int(), and the three binary64 roundings of
\* cell_ratio and of cell_height * cell_ratio, which can cost a cell a
\* whole pixel when the exact product is an integer.
C8_CanvasRatioWithinAPixelAndRounding ==
    pc = "returned" =>
        LET bound  == BnShl(BnFromInt(cols), -target_ratio.e)
            excess == BnSub(CanvasGap, bound)
        IN  \/ BnCmp(CanvasGap, bound) < 0
            \/ /\ BnBitLen(excess) <= 21
               /\ BnCmp(BnShl(excess, 51),
                        BnMulAdd(target_ratio.m, final_image.size[2], 0)) < 0

\* 7:15 on seven images: cells of 139 x 300 where 140 x 300 is exact
C8_Witness ==
    /\ pc = "returned" /\ Len(images) = 7
    /\ target_ratio = RatioOf(7, 15)
    /\ final_image.size = <<417, 900>>

\* C9: when create_image_mosaic returns, every image has been pasted once,
\* in input order: image i at (col * cell_width, row * cell_height) with
\* row = i div cols and col = i mod cols, covering cell_width by
\* cell_height; no two images share a cell, every cell lies inside the
\* canvas, and the skip for an index >= rows * cols is never taken.
C9_EveryImagePlacedRowMajor ==
    /\ ~skipped
    /\ pc = "returned" =>
          LET pastes == final_image.pastes
          IN  /\ Len(pastes) = Len(images)
              /\ \A k \in 1..Len(pastes) :
                    LET i == k - 1
                    IN  /\ pastes[k].image = i
                        /\ pastes[k].at = <<(i % cols) * cell_width,
                                            (i \div cols) * cell_height>>
                        /\ pastes[k].size = <<cell_width, cell_height>>
                        /\ i \div cols < rows
                        /\ pastes[k].at[1] + cell_width <= final_image.size[1]
                        /\ pastes[k].at[2] + cell_height <= final_image.size[2]
              /\ \A k, l \in 1..Len(pastes) :
                    k # l => pastes[k].at # pastes[l].at

C9_Witness ==
    /\ pc = "returned" /\ Len(images) = 5 /\ rows = 2 /\ cols = 3
    /\ Len(final_image.pastes) = 5
    /\ final_image.pastes[5].at = <<cell_width, cell_height>>

\* C10: for every non-empty image list and every positive ratio, the cell
\* and the canvas have a width and a height of at least one pixel.
C10_CellAndCanvasHaveArea ==
    CellSized =>
        /\ cell_width >= 1 /\ cell_height >= 1
        /\ final_image # NoCanvas =>
              final_image.size[1] >= 1 /\ final_image.size[2] >= 1

----------------------------------------------------------------------------
(* The claim about the front-end (under SpecGui)                           *)

\* a mosaic is held: final_mosaic is not None
MosaicHeld == final_mosaic # NoCanvas

\* C11: after any sequence of add files, Clear All, Create Mosaic
\* (succeeding, failing or refused) and Save Mosaic, the Save Mosaic button
\* is enabled only when a mosaic is held: it starts disabled with no
\* mosaic, it becomes enabled only in the step in which process_images
\* stores the canvas a composition returned, it is disabled again only
\* together with the mosaic being dropped, and a step that empties the
\* selection (Clear All) leaves the button disabled and no mosaic.
C11_SaveEnabledOnlyWithMosaic ==
    /\ ~save_enabled /\ ~MosaicHeld
    /\ [](save_enabled => MosaicHeld)
    /\ [][(~save_enabled /\ save_enabled') =>
              /\ pc = "returned" /\ final_image # NoCanvas
              /\ final_mosaic' = final_image]_vars
    /\ [][(save_enabled /\ ~save_enabled') => ~MosaicHeld']_vars
    /\ [][(selected_files # <<>> /\ selected_files' = <<>>) =>
              ~save_enabled' /\ ~MosaicHeld']_vars

\* a composition has failed after one that succeeded: the button is still
\* enabled and the earlier mosaic is still held
C11_Witness ==
    /\ pc = "gui" /\ save_enabled /\ MosaicHeld
    /\ message = "Error processing images"
    /\ Len(final_mosaic.pastes) # Len(selected_files)

====
